---- MODULE Spec2Model ----
(***************************************************************************)
(* structured_tables/parser.py: Term, TermParser, Record,                  *)
(* generate_records and convert_to_dict.                                   *)
(*                                                                         *)
(* A Python string is a sequence of atoms.  " " is one whitespace          *)
(* character, "." is the dot, and every other atom ("table", "a", "x1",    *)
(* ...) is a non-empty run of characters holding neither.  "A", "Table"    *)
(* and "Synonym" are the atoms that str.lower changes.                     *)
(***************************************************************************)
EXTENDS Naturals, Sequences, FiniteSets, TLC

VARIABLES
    pc,       \* where the pipeline stands
    exc,      \* the exception that ended it ("none" while there is none)
    stack,    \* the live TermParser generators, outermost first
    handles,  \* every resource _include_file returned: "open" or "closed"
    pending,  \* terms the innermost generator yields before its next row
    fault,    \* what child_terms raises once pending is drained
    rows,     \* history: the rows pulled from the row sources
    out,      \* history: the terms delivered to the consumer
    recs,     \* generate_records: the Record objects, recs[1] is root
    ltm,      \* generate_records: last_term_map
    result,   \* what convert_to_dict(root) returned
    tin,      \* Term: the arguments of one construction
    tout      \* Term: what the construction and child_terms produced

vars == <<pc, exc, stack, handles, pending, fault, rows, out, recs, ltm,
          result, tin, tout>>

----------------------------------------------------------------------------
(* Bounds *)

MaxRows == 3     \* rows pulled from all row sources together
MaxDepth == 3    \* TermParser generators alive at once
MaxTerms == 4    \* terms fed to generate_records directly
MaxArgs == 2     \* argument cells and parameter names of one Term

----------------------------------------------------------------------------
(* Strings *)

SP == " "
DOT == "."

NO_TERM == <<"<no_term>">>
ELIDED_TERM == <<"<elided_term>">>
AT_VALUE == <<"@value">>

LowerAtom(c) ==
    CASE c = "A" -> "a"
      [] c = "Table" -> "table"
      [] c = "Synonym" -> "synonym"
      [] OTHER -> c

Lower(s) == [i \in 1..Len(s) |-> LowerAtom(s[i])]

RECURSIVE LStrip(_)
LStrip(s) == IF s # <<>> /\ Head(s) = SP THEN LStrip(Tail(s)) ELSE s

RECURSIVE RStrip(_)
RStrip(s) ==
    IF s # <<>> /\ s[Len(s)] = SP THEN RStrip(SubSeq(s, 1, Len(s) - 1)) ELSE s

Strip(s) == RStrip(LStrip(s))

HasDot(s) == \E i \in 1..Len(s) : s[i] = DOT

FirstDot(s) == CHOOSE i \in 1..Len(s) : s[i] = DOT /\ \A j \in 1..(i - 1) : s[j] # DOT

\* str.split('.'): the pieces between the dots, all of them
RECURSIVE Split(_)
Split(s) ==
    IF HasDot(s)
    THEN <<SubSeq(s, 1, FirstDot(s) - 1)>> \o Split(SubSeq(s, FirstDot(s) + 1, Len(s)))
    ELSE <<s>>

StripAll(cells) == [i \in 1..Len(cells) |-> Strip(cells[i])]

Min(a, b) == IF a <= b THEN a ELSE b

\* All sequences over S of length at most n
SeqsUpTo(S, n) == UNION {[1..k -> S] : k \in 0..n}

----------------------------------------------------------------------------
(* Python dicts are functions; d[k] = v is Put *)

EmptyDict == [x \in {} |-> x]

Put(d, k, v) == [x \in (DOMAIN d) \cup {k} |-> IF x = k THEN v ELSE d[x]]

----------------------------------------------------------------------------
(* class Term *)

\* line 24: the two-name unpacking of term.split('.') raises ValueError
\* unless the split has exactly two pieces
TermRaises(term) == HasDot(term) /\ Len(Split(term)) # 2

Term(term, value, term_args, is_arg_child) ==
    LET parts == Split(term)
        parent == IF HasDot(term)
                  THEN (IF Strip(parts[1]) = <<>> THEN ELIDED_TERM ELSE Strip(parts[1]))
                  ELSE NO_TERM
        record == IF HasDot(term) THEN Strip(parts[2]) ELSE Strip(term)
    IN  [parent_term |-> parent,
         record_term |-> record,
         value |-> Strip(value),
         term_value_name |-> AT_VALUE,
         args |-> StripAll(term_args),
         is_arg_child |-> is_arg_child]

\* The name of the i-th candidate child, as line 44 builds it
ChildName(t, param_map, i) == t.record_term \o <<DOT>> \o param_map[i]

\* Whether the i-th (param, arg) pair passes the filter of line 43
ChildWanted(t, param_map, i) ==
    Strip(param_map[i]) # <<>> /\ Strip(t.args[i]) # <<>>

\* child_terms is a generator: it yields the children of pairs 1..n in order
\* and stops at the first pair whose Term construction raises.
RECURSIVE ChildTermsFrom(_, _, _)
ChildTermsFrom(t, param_map, i) ==
    IF i > Min(Len(param_map), Len(t.args))
    THEN [terms |-> <<>>, raised |-> FALSE]
    ELSE IF ~ChildWanted(t, param_map, i)
    THEN ChildTermsFrom(t, param_map, i + 1)
    ELSE IF TermRaises(ChildName(t, param_map, i))
    THEN [terms |-> <<>>, raised |-> TRUE]
    ELSE LET rest == ChildTermsFrom(t, param_map, i + 1)
         IN  [terms |-> <<Term(ChildName(t, param_map, i), t.args[i], <<>>, TRUE)>>
                         \o rest.terms,
              raised |-> rest.raised]

child_terms(t, param_map) == ChildTermsFrom(t, param_map, 1)

\* __str__ without the value: the name a Term stands for
TermName(t) ==
    IF t.parent_term = NO_TERM THEN t.record_term
    ELSE IF t.parent_term = ELIDED_TERM THEN <<DOT>> \o t.record_term
    ELSE t.parent_term \o <<DOT>> \o t.record_term

----------------------------------------------------------------------------
(* class TermParser *)

\* __init__.  at and h are bookkeeping: at is the position (the path of row
\* numbers) of the include row that created this parser, <<>> for the
\* outermost one, and h is the handle its row source reads, 0 for none.
TermParser(at, h) ==
    [pm |-> <<>>, syn |-> EmptyDict, vn |-> EmptyDict, errors |-> <<>>,
     n |-> 0, at |-> at, h |-> h]

\* A substitution that looks the substituted name up again
SubstituteAgain(syn, cell) ==
    IF Lower(cell) \in DOMAIN syn
    THEN (IF Lower(syn[Lower(cell)]) \in DOMAIN syn
          THEN syn[Lower(syn[Lower(cell)])] ELSE syn[Lower(cell)])
    ELSE cell

\* lines 107-111: one lookup of the lowercased term cell
Substitute(syn, cell) ==
    IF Lower(cell) \in DOMAIN syn THEN syn[Lower(cell)] ELSE cell

\* A synonym row that registers an empty target instead of recording an error
SynonymRowNoError(fr, t) ==
    [fr EXCEPT !.syn = Put(@, Lower(t.value),
                           IF Len(t.args) = 0 THEN <<>> ELSE Lower(t.args[1]))]

\* lines 130-133: register the synonym, or record the IndexError of args[0]
SynonymRow(fr, t) ==
    IF Len(t.args) = 0
    THEN [fr EXCEPT !.errors = Append(@, [t |-> t, message |-> "list index out of range"])]
    ELSE [fr EXCEPT !.syn = Put(@, Lower(t.value), Lower(t.args[1]))]

\* A parameter map that grows instead of being replaced
SectionRowExtends(fr, t) == [fr EXCEPT !.pm = @ \o t.args]

\* line 125: a section or term row replaces the parameter map
SectionRow(fr, t) == [fr EXCEPT !.pm = t.args]

\* A registration that keeps the first name given for a record term
ValueNameRowFirstWins(fr, t) ==
    IF Lower(t.value) \in DOMAIN fr.vn THEN fr
    ELSE [fr EXCEPT !.vn = Put(@, Lower(t.value), t.args[1])]

\* line 118, for a row that has an argument
ValueNameRow(fr, t) == [fr EXCEPT !.vn = Put(@, Lower(t.value), t.args[1])]

\* line 121
ValueNameOf(vn, t) ==
    IF Lower(t.record_term) \in DOMAIN vn THEN vn[Lower(t.record_term)] ELSE AT_VALUE

Outcome(kind, e, fr, terms, flt) ==
    [kind |-> kind, exc |-> e, fr |-> fr, terms |-> terms, fault |-> flt]

\* The body of the for loop of __iter__ for one row, in a parser whose state
\* is fr.  opens: whether _include_file succeeds in opening the target.
\*   "raise"   an exception leaves the generator
\*   "skip"    continue, nothing yielded
\*   "emit"    the row's term and its arg children are yielded
\*   "include" a nested parser is iterated
IterRow(fr, row, opens) ==
    IF Len(row) = 0 THEN Outcome("raise", "IndexError", fr, <<>>, "none")
    ELSE IF Strip(row[1]) = <<>> THEN Outcome("skip", "none", fr, <<>>, "none")
    ELSE IF Len(row) < 2 THEN Outcome("raise", "IndexError", fr, <<>>, "none")
    ELSE IF TermRaises(Lower(Substitute(fr.syn, row[1])))
    THEN Outcome("raise", "ValueError", fr, <<>>, "none")
    ELSE
      LET t0 == Term(Lower(Substitute(fr.syn, row[1])), row[2],
                     SubSeq(row, 3, Len(row)), FALSE)
          rt == Lower(t0.record_term)
          t  == [t0 EXCEPT !.term_value_name = ValueNameOf(fr.vn, t0)]
          ch == child_terms(t, fr.pm)
      IN  IF rt = <<"termvaluename">>
          THEN IF Len(t0.args) = 0
               THEN Outcome("raise", "IndexError", fr, <<>>, "none")
               ELSE Outcome("skip", "none", ValueNameRow(fr, t0), <<>>, "none")
          ELSE IF rt \in {<<"section">>, <<"term">>}
          THEN Outcome("skip", "none", SectionRow(fr, t), <<>>, "none")
          ELSE IF rt = <<"synonym">>
          THEN Outcome("skip", "none", SynonymRow(fr, t), <<>>, "none")
          ELSE IF rt = <<"include">>
          THEN IF opens
               THEN Outcome("include", "none", fr, <<>>, "none")
               ELSE Outcome("raise", "IOError", fr, <<>>, "none")
          ELSE Outcome("emit", "none", fr, <<t>> \o ch.terms,
                       IF ch.raised THEN "ValueError" ELSE "none")

\* An include whose rows are read only after the includer's remaining rows
PushIncludeDeferred(stk, fr) == <<fr>> \o stk

\* A nested parser that starts from the includer's synonyms, value names
\* and parameter map
PushIncludeInherits(stk, fr) ==
    Append(stk, [fr EXCEPT !.syn = stk[Len(stk)].syn, !.vn = stk[Len(stk)].vn,
                           !.pm = stk[Len(stk)].pm])

\* line 143: the includer iterates the nested parser before its own next row
PushInclude(stk, fr) == Append(stk, fr)

----------------------------------------------------------------------------
(* class Record, generate_records *)

None == [k |-> "none", v |-> <<>>]
Str(s) == [k |-> "str", v |-> s]
List(s) == [k |-> "list", v |-> s]
Dict(d) == [k |-> "dict", v |-> d]
Unset == [k |-> "unset", v |-> <<>>]

\* Python truth of a record value: None and '' are false
Truthy(x) == x.k = "str" /\ x.v # <<>>

Record(term, value, term_value_name) ==
    [term |-> Strip(term),
     value |-> value,
     term_value_name |-> IF term_value_name = <<>> THEN AT_VALUE ELSE term_value_name,
     children |-> <<>>]

Root == Record(<<"Root">>, None, <<>>)

\* An add_child that puts the new child first
add_childFirst(rs, parent, child) == [rs EXCEPT ![parent].children = <<child>> \o @]

add_child(rs, parent, child) == [rs EXCEPT ![parent].children = Append(@, child)]

\* A registration that forgets the elided-parent exclusion
RegistersElided(term) == ~term.is_arg_child

\* lines 212-216: which terms are entered in last_term_map
Registers(term) == ~term.is_arg_child /\ term.parent_term # ELIDED_TERM

\* A lookup that falls back to root
LookupOrRoot(map, key) == IF key \in DOMAIN map THEN map[key] ELSE 1

\* line 209: last_term_map[key]; 0 stands for the KeyError
Lookup(map, key) == IF key \in DOMAIN map THEN map[key] ELSE 0

\* The body of the for loop of generate_records for one term
generate_records(rs, map, term) ==
    LET key == Lower(term.parent_term)
        new == Len(rs) + 1
        record == Record(term.record_term, Str(term.value), term.term_value_name)
    IN  IF Lookup(map, key) = 0
        THEN [raised |-> TRUE, recs |-> rs, ltm |-> map]
        ELSE [raised |-> FALSE,
              recs |-> Append(add_child(rs, Lookup(map, key), new), record),
              ltm |-> IF Registers(term)
                      THEN Put(Put(map, ELIDED_TERM, new), Lower(term.record_term), new)
                      ELSE map]

----------------------------------------------------------------------------
(* convert_to_dict *)

\* A merge that overwrites an earlier child of the same name
MergeChildOverwrite(d, key, v) == Put(d, key, v)

\* lines 240-247: d[c.term].append(v), with its two exception handlers
MergeChild(d, key, v) ==
    IF key \notin DOMAIN d THEN Put(d, key, v)
    ELSE IF d[key].k = "list" THEN Put(d, key, List(Append(d[key].v, v)))
    ELSE Put(d, key, List(<<d[key], v>>))

\* line 250
StoreValue(d, r) == IF Truthy(r.value) THEN Put(d, r.term_value_name, r.value) ELSE d

RECURSIVE convert_to_dict(_, _)
RECURSIVE MergeChildren(_, _, _)

\* lines 237-247: the mapping d after the loop over the children cs
MergeChildren(rs, cs, d) ==
    IF cs = <<>> THEN d
    ELSE MergeChildren(rs, Tail(cs),
                       MergeChild(d, rs[Head(cs)].term, convert_to_dict(rs, Head(cs))))

convert_to_dict(rs, i) ==
    IF rs[i].children # <<>>
    THEN Dict(StoreValue(MergeChildren(rs, rs[i].children, EmptyDict), rs[i]))
    ELSE rs[i].value

----------------------------------------------------------------------------
(* The rows a row source may produce *)

W(a) == <<a>>

Rows ==
    { <<W("table"), W("t1")>>,
      <<W("section"), <<>>, W("a"), W("b")>>,
      <<W("section"), <<>>, <<"a", DOT, "b">>>>,
      <<W("table"), W("v1"), W("x1"), W("x2")>>,
      <<>>,
      <<W("a")>>,
      <<W(SP)>>,
      <<W("include"), W("f")>>,
      <<W("synonym"), W("a")>>,
      <<W("synonym"), W("a"), W("b")>>,
      <<W("Synonym"), W("Table"), W("A")>>,
      <<<<DOT, "b">>, W("v1"), W("x1")>>,
      <<<<DOT, "table">>, W("v1"), W("x1")>>,
      <<<<"table", DOT>>, W("v1")>>,
      <<W("termvaluename"), W("table"), W("a")>>,
      <<W("termvaluename"), W("Table"), W("b")>>,
      <<W("termvaluename"), W("table")>>,
      <<<<"table", DOT, "a">>, W("x1")>> }

----------------------------------------------------------------------------
(* The pipeline: TermParser feeding generate_records, then convert_to_dict *)

Live == pc \in {"run", "yielded"}

Top == stack[Len(stack)]

\* The position of the row the innermost parser read last
CurSrc == Top.at \o <<Top.n>>

Init ==
    /\ pc = "run"
    /\ exc = "none"
    /\ stack = <<TermParser(<<>>, 0)>>
    /\ handles = <<>>
    /\ pending = <<>>
    /\ fault = "none"
    /\ rows = <<>>
    /\ out = <<>>
    /\ recs = <<Root>>
    /\ ltm = [x \in {NO_TERM} |-> 1]
    /\ result = Unset
    /\ tin = <<>>
    /\ tout = <<>>

\* The innermost parser pulls one row and runs the loop body on it
ReadRow ==
    /\ Live
    /\ pending = <<>>
    /\ fault = "none"
    /\ Len(rows) < MaxRows
    /\ \E row \in Rows, opens \in BOOLEAN :
         LET d == Len(stack)
             fr == [stack[d] EXCEPT !.n = @ + 1]
             o == IterRow(fr, row, opens)
             h == Len(handles) + 1
         IN  /\ o.kind = "include" => d < MaxDepth
             /\ rows' = Append(rows, [row |-> row, src |-> fr.at \o <<fr.n>>])
             /\ pc' = IF o.kind = "raise" THEN "raised" ELSE "run"
             /\ exc' = o.exc
             /\ pending' = o.terms
             /\ fault' = o.fault
             /\ stack' = IF o.kind = "include"
                         THEN PushInclude([stack EXCEPT ![d] = o.fr],
                                          TermParser(fr.at \o <<fr.n>>, h))
                         ELSE [stack EXCEPT ![d] = o.fr]
             /\ handles' = IF o.kind = "include" THEN Append(handles, "open") ELSE handles
    /\ UNCHANGED <<out, recs, ltm, result, tin, tout>>

\* A term is yielded through every enclosing generator to the consumer, and
\* the body of generate_records' loop runs on it
Yield ==
    /\ Live
    /\ pending # <<>>
    /\ LET g == generate_records(recs, ltm, Head(pending))
       IN  /\ out' = Append(out, [t |-> Head(pending), src |-> CurSrc])
           /\ pending' = Tail(pending)
           /\ pc' = IF g.raised THEN "raised" ELSE "yielded"
           /\ exc' = IF g.raised THEN "KeyError" ELSE exc
           /\ recs' = g.recs
           /\ ltm' = g.ltm
    /\ UNCHANGED <<stack, handles, fault, rows, result, tin, tout>>

\* Resumed after its last good child, child_terms raises
ChildRaise ==
    /\ Live
    /\ pending = <<>>
    /\ fault # "none"
    /\ pc' = "raised"
    /\ exc' = fault
    /\ UNCHANGED <<stack, handles, pending, fault, rows, out, recs, ltm, result, tin, tout>>

\* lines 143-147: the nested parser is exhausted, the includer closes f
EndOfInclude ==
    /\ Live
    /\ pending = <<>>
    /\ fault = "none"
    /\ Len(stack) > 1
    /\ handles' = [handles EXCEPT ![Top.h] = "closed"]
    /\ stack' = SubSeq(stack, 1, Len(stack) - 1)
    /\ pc' = "run"
    /\ UNCHANGED <<exc, pending, fault, rows, out, recs, ltm, result, tin, tout>>

\* The outermost row source is exhausted: generate_records returns root
EndOfRows ==
    /\ Live
    /\ pending = <<>>
    /\ fault = "none"
    /\ Len(stack) = 1
    /\ pc' = "built"
    /\ UNCHANGED <<exc, stack, handles, pending, fault, rows, out, recs, ltm, result, tin, tout>>

\* The consumer stops pulling while the generator is suspended at a yield.
\* No statement of the generator runs again; whether the interpreter ever
\* finalises the abandoned file objects is not the program's doing.
ConsumerStop ==
    /\ pc = "yielded"
    /\ pc' = "stopped"
    /\ \E finalised \in BOOLEAN :
         handles' = IF finalised THEN [i \in 1..Len(handles) |-> "closed"] ELSE handles
    /\ UNCHANGED <<exc, stack, pending, fault, rows, out, recs, ltm, result, tin, tout>>

Convert ==
    /\ pc = "built"
    /\ result' = convert_to_dict(recs, 1)
    /\ pc' = "converted"
    /\ UNCHANGED <<exc, stack, handles, pending, fault, rows, out, recs, ltm, tin, tout>>

Next ==
    \/ ReadRow
    \/ Yield
    \/ ChildRaise
    \/ EndOfInclude
    \/ EndOfRows
    \/ ConsumerStop
    \/ Convert

Spec == Init /\ [][Next]_vars

----------------------------------------------------------------------------
(* generate_records and convert_to_dict on an arbitrary term stream *)

\* Terms as Term.__init__ builds them, with the value name line 121 may set
RecTermInputs ==
    { <<W("table"), W("v1"), FALSE, AT_VALUE>>,
      <<W("table"), W("v1"), FALSE, W("a")>>,
      <<W("table"), <<>>, FALSE, AT_VALUE>>,
      <<W("a"), W("x1"), FALSE, AT_VALUE>>,
      <<<<DOT, "a">>, W("x1"), FALSE, AT_VALUE>>,
      <<<<DOT, "a">>, W("x1"), TRUE, AT_VALUE>>,
      <<<<"table", DOT, "a">>, W("x1"), TRUE, AT_VALUE>>,
      <<<<"table", DOT, "a">>, W("x2"), FALSE, AT_VALUE>>,
      <<<<"table", DOT, "@value">>, W("x1"), FALSE, AT_VALUE>>,
      <<<<"a", DOT, "b">>, W("x1"), FALSE, AT_VALUE>> }

RecTerms ==
    { [Term(i[1], i[2], <<>>, i[3]) EXCEPT !.term_value_name = i[4]] : i \in RecTermInputs }

InitRec ==
    /\ pc = "feed"
    /\ exc = "none"
    /\ stack = <<>>
    /\ handles = <<>>
    /\ pending = <<>>
    /\ fault = "none"
    /\ rows = <<>>
    /\ out = <<>>
    /\ recs = <<Root>>
    /\ ltm = [x \in {NO_TERM} |-> 1]
    /\ result = Unset
    /\ tin = <<>>
    /\ tout = <<>>

\* The term generator yields one more term and the loop body runs on it
FeedTerm ==
    /\ pc = "feed"
    /\ Len(out) < MaxTerms
    /\ \E t \in RecTerms :
         LET g == generate_records(recs, ltm, t)
         IN  /\ out' = Append(out, [t |-> t, src |-> <<>>])
             /\ pc' = IF g.raised THEN "raised" ELSE "feed"
             /\ exc' = IF g.raised THEN "KeyError" ELSE exc
             /\ recs' = g.recs
             /\ ltm' = g.ltm
    /\ UNCHANGED <<stack, handles, pending, fault, rows, result, tin, tout>>

\* The term generator is exhausted: generate_records returns root
EndOfTerms ==
    /\ pc = "feed"
    /\ pc' = "built"
    /\ UNCHANGED <<exc, stack, handles, pending, fault, rows, out, recs, ltm, result, tin, tout>>

NextRec ==
    \/ FeedTerm
    \/ EndOfTerms
    \/ Convert

SpecRec == InitRec /\ [][NextRec]_vars

----------------------------------------------------------------------------
(* Term.__init__ and Term.child_terms on arbitrary cells *)

TermCells ==
    { W("table"), <<SP, "table", SP>>, <<DOT, "a">>, <<SP, DOT, "a">>,
      <<"table", DOT, "a">>, <<"table", SP, DOT, SP, "a">>,
      <<"a", DOT, "b", DOT, "c">>, <<DOT, "a", DOT, "b">>,
      <<"table", DOT>>, <<DOT>> }

ValueCells == { W("v1"), <<SP, "v1">>, <<>> }

ArgCells == { W("x1"), <<>>, <<SP, "x2">> }

ParamCells == { W("a"), <<>>, <<SP, "b">>, <<"a", DOT, "b">> }

NoTerm == Term(<<>>, <<>>, <<>>, FALSE)

InitTerm ==
    /\ pc = "term"
    /\ exc = "none"
    /\ stack = <<>>
    /\ handles = <<>>
    /\ pending = <<>>
    /\ fault = "none"
    /\ rows = <<>>
    /\ out = <<>>
    /\ recs = <<Root>>
    /\ ltm = [x \in {NO_TERM} |-> 1]
    /\ result = Unset
    /\ tin \in [term : TermCells, value : ValueCells,
                term_args : SeqsUpTo(ArgCells, MaxArgs),
                param_map : SeqsUpTo(ParamCells, MaxArgs)]
    /\ tout = [state |-> "new", t |-> NoTerm, children |-> <<>>]

\* Term(term, value, term_args)
TermConstruct ==
    /\ pc = "term"
    /\ tout.state = "new"
    /\ tout' = IF TermRaises(tin.term)
               THEN [tout EXCEPT !.state = "raised"]
               ELSE [tout EXCEPT !.state = "built",
                                 !.t = Term(tin.term, tin.value, tin.term_args, FALSE)]
    /\ UNCHANGED <<pc, exc, stack, handles, pending, fault, rows, out, recs, ltm, result, tin>>

\* list(t.child_terms(param_map))
TermChildren ==
    /\ pc = "term"
    /\ tout.state = "built"
    /\ tout' = [tout EXCEPT
                  !.state = IF child_terms(tout.t, tin.param_map).raised
                            THEN "childraise" ELSE "children",
                  !.children = child_terms(tout.t, tin.param_map).terms]
    /\ UNCHANGED <<pc, exc, stack, handles, pending, fault, rows, out, recs, ltm, result, tin>>

NextTerm ==
    \/ TermConstruct
    \/ TermChildren

SpecTerm == InitTerm /\ [][NextTerm]_vars

----------------------------------------------------------------------------
(* Claims *)

RowsRead == [i \in 1..Len(rows) |-> rows[i].row]

LastRow == rows[Len(rows)].row

ExampleRows ==
    << <<W("table"), W("t1")>>,
       <<W("section"), <<>>, W("a"), W("b")>>,
       <<W("table"), W("v1"), W("x1"), W("x2")>> >>

ExampleInner ==
    Dict((W("a") :> Str(W("x1"))) @@ (W("b") :> Str(W("x2")))
         @@ (AT_VALUE :> Str(W("v1"))))

\* C1 as the spec states it: the example rows convert to
\* {"table": {"a": "x1", "b": "x2", "@value": "v1"}}.
C1_ExampleAsStated ==
    (pc = "converted" /\ RowsRead = ExampleRows)
        => result = Dict(W("table") :> ExampleInner)

\* C1, amended: the example rows convert to
\* {"table": ["t1", {"a": "x1", "b": "x2", "@value": "v1"}]}: the first row is
\* a record named table too, so the key holds a list of both records.
C1_Example ==
    (pc = "converted" /\ RowsRead = ExampleRows)
        => result = Dict(W("table") :> List(<<Str(W("t1")), ExampleInner>>))

C1_Witness == pc = "converted" /\ RowsRead = ExampleRows

\* C2: a row with fewer than 2 cells never aborts the iteration: the parser
\* is never left raised by the IndexError of such a row.
C2_ShortRowNeverAborts ==
    ~(pc = "raised" /\ exc = "IndexError" /\ rows # <<>> /\ Len(LastRow) < 2)

\* C3: once the stream is exhausted or the consumer has stopped pulling, no
\* handle opened for an include row is still open.
C3_IncludesReleased ==
    pc \in {"built", "converted", "stopped"}
        => \A h \in 1..Len(handles) : handles[h] = "closed"

\* The name a row is processed under in a parser with the synonyms syn
RowName(syn, row) == Lower(IF Lower(row[1]) \in DOMAIN syn THEN syn[Lower(row[1])] ELSE row[1])

\* A row of a term cell and a value cell only that a parser with the
\* synonyms syn processes as a synonym row
SynonymRowWithoutArg(syn, row) ==
    /\ Len(row) = 2
    /\ Strip(row[1]) # <<>>
    /\ ~TermRaises(RowName(syn, row))
    /\ Term(RowName(syn, row), row[2], <<>>, FALSE).record_term = <<"synonym">>

\* The parser states f and g agree but for the errors list and the row count
SameButErrors(f, g) ==
    /\ f.pm = g.pm /\ f.syn = g.syn /\ f.vn = g.vn /\ f.at = g.at /\ f.h = g.h

\* C4: a step that reads a synonym row with no argument cell appends exactly
\* one entry to that parser's errors, changes no synonyms, value names or
\* parameter map, yields no term, and leaves the parser running, the record
\* tree and every other parser as they were.
C4_MalformedSynonymRecoverable ==
    [][(Len(rows') = Len(rows) + 1 /\ SynonymRowWithoutArg(Top.syn, rows'[Len(rows')].row))
        => /\ pc' = "run" /\ exc' = "none"
           /\ Len(stack') = Len(stack)
           /\ \A i \in 1..Len(stack) : SameButErrors(stack'[i], stack[i])
           /\ \A i \in 1..(Len(stack) - 1) : stack'[i].errors = stack[i].errors
           /\ Len(stack'[Len(stack)].errors) = Len(Top.errors) + 1
           /\ SubSeq(stack'[Len(stack)].errors, 1, Len(Top.errors)) = Top.errors
           /\ pending' = <<>> /\ fault' = "none"
           /\ out' = out /\ recs' = recs /\ ltm' = ltm /\ handles' = handles]_vars

C4_Witness ==
    /\ pc = "converted"
    /\ Len(rows) = 2
    /\ rows[1].row = <<W("synonym"), W("a")>>
    /\ Len(stack[1].errors) = 1
    /\ stack[1].syn = EmptyDict
    /\ Len(out) >= 1

RECURSIVE LexLeq(_, _)
LexLeq(a, b) ==
    IF a = <<>> THEN TRUE
    ELSE IF b = <<>> THEN FALSE
    ELSE IF a[1] # b[1] THEN a[1] < b[1]
    ELSE LexLeq(Tail(a), Tail(b))

IsPrefix(a, b) == Len(a) <= Len(b) /\ SubSeq(b, 1, Len(a)) = a

\* C5: the output stream is the depth-first flattening of the rows: the
\* terms are delivered in the lexicographic order of their rows' positions,
\* so the terms of the resource included at a row follow every term of the
\* includer's earlier rows, precede every term of its later rows, and keep
\* the included resource's own order.
C5_IncludeInPlace ==
    \A i, j \in 1..Len(out) : i < j => LexLeq(out[i].src, out[j].src)

\* An included term between the terms of the includer's rows around it, or
\* a term of a nested include before a later row of its includer
C5_Witness ==
    \E i, j \in 1..Len(out) :
        /\ i < j
        /\ Len(out[i].src) >= 2
        /\ Len(out[j].src) < Len(out[i].src)
        /\ handles[1] = "closed"

\* The children of record i whose term is k, in arrival order
ChildrenNamed(i, k) ==
    LET Named(c) == recs[c].term = k IN SelectSeq(recs[i].children, Named)

ConvertedAll(cs) == [n \in 1..Len(cs) |-> convert_to_dict(recs, cs[n])]

\* What n same-named children are to leave under their key
MergedValue(cs) ==
    IF Len(cs) = 1 THEN convert_to_dict(recs, cs[1]) ELSE List(ConvertedAll(cs))

\* C6: in the mapping convert_to_dict returns for an internal node, the key
\* of n same-named children holds the one converted value (n = 1) or the
\* list of all n converted values in arrival order (n >= 2), none overwritten.
C6_SameNameChildren ==
    \A i \in 1..Len(recs) :
        recs[i].children # <<>> =>
            \A c \in {recs[i].children[n] : n \in 1..Len(recs[i].children)} :
                /\ recs[c].term \in DOMAIN convert_to_dict(recs, i).v
                /\ convert_to_dict(recs, i).v[recs[c].term]
                       = MergedValue(ChildrenNamed(i, recs[c].term))

\* The same of the mapping as the loop over the children leaves it (line 247)
C6_MergeLoop ==
    \A i \in 1..Len(recs) :
        \A c \in {recs[i].children[n] : n \in 1..Len(recs[i].children)} :
            /\ recs[c].term \in DOMAIN MergeChildren(recs, recs[i].children, EmptyDict)
            /\ MergeChildren(recs, recs[i].children, EmptyDict)[recs[c].term]
                   = MergedValue(ChildrenNamed(i, recs[c].term))

\* The term record j (j >= 2) was created from
TermOf(j) == out[j - 1].t

Eligible(t) == ~t.is_arg_child /\ t.parent_term # ELIDED_TERM

IsChild(p, j) == \E n \in 1..Len(recs[p].children) : recs[p].children[n] = j

\* C7: after any prefix of the stream the table entry under ELIDED_TERM is a
\* record built from a term that is neither an arg child nor elided-parent,
\* and every record built from an elided-parent term is a child of the
\* record of the most recent such term before it.
C7_ElidedAnchor ==
    /\ ELIDED_TERM \in DOMAIN ltm =>
           /\ ltm[ELIDED_TERM] \in 2..Len(recs)
           /\ Eligible(TermOf(ltm[ELIDED_TERM]))
    /\ \A j \in 2..Len(recs) :
           TermOf(j).parent_term = ELIDED_TERM =>
               \E i \in 2..(j - 1) :
                   /\ Eligible(TermOf(i))
                   /\ \A k \in (i + 1)..(j - 1) : ~Eligible(TermOf(k))
                   /\ IsChild(i, j)
                   /\ \A p \in 1..Len(recs) : IsChild(p, j) => p = i

\* An elided-parent term attached past an arg child and an elided-parent
\* record to the anchor before them
C7_Witness ==
    /\ Len(recs) = 5
    /\ Eligible(TermOf(2))
    /\ TermOf(3).is_arg_child
    /\ TermOf(4).parent_term = ELIDED_TERM /\ ~TermOf(4).is_arg_child
    /\ TermOf(5).parent_term = ELIDED_TERM
    /\ IsChild(2, 5)

\* C8: a row whose lowercased term cell is a registered synonym is processed
\* under the name registered for it, also when that name is itself a
\* registered synonym: the term the row yields has the parts of that name.
C8_SynonymOnce ==
    [][(/\ Len(rows') = Len(rows) + 1
        /\ Len(rows'[Len(rows')].row) >= 2
        /\ Lower(rows'[Len(rows')].row[1]) \in DOMAIN Top.syn
        /\ pending' # <<>>)
        => LET named == Term(Top.syn[Lower(rows'[Len(rows')].row[1])], <<>>, <<>>, FALSE)
           IN  /\ pending'[1].parent_term = named.parent_term
               /\ pending'[1].record_term = named.record_term]_vars

\* With a -> b and b -> c registered, a row a has just yielded the term b
C8_Witness ==
    /\ pending # <<>>
    /\ rows # <<>>
    /\ Len(LastRow) >= 2
    /\ Lower(LastRow[1]) \in DOMAIN Top.syn
    /\ Top.syn[Lower(LastRow[1])] \in DOMAIN Top.syn
    /\ Top.syn[Top.syn[Lower(LastRow[1])]] # Top.syn[Lower(LastRow[1])]
    /\ pending[1].record_term = Top.syn[Lower(LastRow[1])]
    /\ pending[1].parent_term = NO_TERM

\* The positions of the (param, arg) pairs child_terms is to yield a child for
WantedPairs ==
    LET Wanted(i) == Strip(tin.param_map[i]) # <<>> /\ Strip(tout.t.args[i]) # <<>>
    IN  SelectSeq([i \in 1..Min(Len(tin.param_map), Len(tin.term_args)) |-> i], Wanted)

\* C9: child_terms yields one child per pair of the first min(len) pairs
\* whose parameter name and argument are both non-empty after trimming, in
\* order, named record_term.param_name, with the argument as value,
\* is_arg_child set and no args.
C9_ChildTerms ==
    tout.state \in {"children", "childraise"} =>
        /\ tout.state = "children"
        /\ Len(tout.children) = Len(WantedPairs)
        /\ \A n \in 1..Len(WantedPairs) :
               /\ TermName(tout.children[n])
                      = tout.t.record_term \o <<DOT>> \o Strip(tin.param_map[WantedPairs[n]])
               /\ tout.children[n].value = tout.t.args[WantedPairs[n]]
               /\ tout.children[n].is_arg_child
               /\ tout.children[n].args = <<>>

\* C9 for parameter names that hold no dot
C9_ChildTermsUndotted ==
    (\A i \in 1..Len(tin.param_map) : ~HasDot(tin.param_map[i])) => C9_ChildTerms

\* C10: a name cell with one or more dots is split on its first dot only:
\* parent_term is the trimmed text before it (ELIDED_TERM if empty),
\* record_term the trimmed remainder after it.
C10_FirstDotSplit ==
    (tout.state # "new" /\ HasDot(tin.term)) =>
        /\ tout.state # "raised"
        /\ tout.t.parent_term =
               (IF Strip(SubSeq(tin.term, 1, FirstDot(tin.term) - 1)) = <<>>
                THEN ELIDED_TERM
                ELSE Strip(SubSeq(tin.term, 1, FirstDot(tin.term) - 1)))
        /\ tout.t.record_term = Strip(SubSeq(tin.term, FirstDot(tin.term) + 1, Len(tin.term)))

\* C10 for name cells with exactly one dot
C10_OneDotSplit ==
    Len(Split(tin.term)) = 2 => C10_FirstDotSplit

\* C11: every term the parser delivers has a non-empty record_term.
C11_RecordTermNonEmpty ==
    \A i \in 1..Len(out) : out[i].t.record_term # <<>>

\* How many times record j occurs in the children lists
Occurrences(j) ==
    Cardinality({<<p, n>> \in (1..Len(recs)) \X (1..Len(recs)) :
                    n <= Len(recs[p].children) /\ recs[p].children[n] = j})

\* The terms generate_records has made a record of: all those delivered,
\* but for the one whose lookup raised
Consumed == IF pc = "raised" /\ exc = "KeyError" THEN Len(out) - 1 ELSE Len(out)

\* C12: the records form a tree rooted at Root: every record created occurs
\* exactly once in the children lists and below an earlier record, Root in
\* none, there is one record per term consumed, and every children list is
\* in arrival order.
C12_RecordTree ==
    /\ Len(recs) = Consumed + 1
    /\ Occurrences(1) = 0
    /\ \A j \in 2..Len(recs) : Occurrences(j) = 1
    /\ \A p \in 1..Len(recs) :
           \A n \in 1..Len(recs[p].children) :
               /\ recs[p].children[n] \in (p + 1)..Len(recs)
               /\ \A m \in 1..(n - 1) : recs[p].children[m] < recs[p].children[n]

\* A record with two children under a record that is not Root
C12_Witness ==
    \E p \in 2..Len(recs) : Len(recs[p].children) >= 2

\* A step that pulls a row, and the row it pulls
ReadsRow == Len(rows') = Len(rows) + 1

NewRow == rows'[Len(rows')].row

\* A row a parser with the synonyms syn makes a Term of, and that Term
MakesTerm(syn, row) ==
    Len(row) >= 2 /\ Strip(row[1]) # <<>> /\ ~TermRaises(RowName(syn, row))

RowTerm(syn, row) == Term(RowName(syn, row), row[2], SubSeq(row, 3, Len(row)), FALSE)

IsSectionRow(syn, row) ==
    MakesTerm(syn, row) /\ RowTerm(syn, row).record_term \in {<<"section">>, <<"term">>}

IsValueNameRow(syn, row) ==
    MakesTerm(syn, row) /\ RowTerm(syn, row).record_term = <<"termvaluename">>

\* The parsers alive before and after a step
Kept == 1..Min(Len(stack), Len(stack'))

\* The positions of the pairs of the parameter map pm and the args of t that
\* are both non-empty after trimming
PairsOf(pm, t) ==
    LET Wanted(i) == Strip(pm[i]) # <<>> /\ Strip(t.args[i]) # <<>>
    IN  SelectSeq([i \in 1..Min(Len(pm), Len(t.args)) |-> i], Wanted)

\* C13: a section or term row yields no term and makes its args the
\* parameter map of its parser; no other step changes a parameter map; and
\* the arg children a data row yields are those of the pairs of its parser's
\* current map, hence of the most recent section or term row of its resource.
C13_ParamMap ==
    [][/\ (ReadsRow /\ IsSectionRow(Top.syn, NewRow))
            => /\ stack'[Len(stack)].pm = RowTerm(Top.syn, NewRow).args
               /\ Len(stack') = Len(stack)
               /\ pending' = <<>> /\ out' = out /\ pc' = "run"
       /\ \A i \in Kept :
              (i < Len(stack) \/ ~(ReadsRow /\ IsSectionRow(Top.syn, NewRow)))
                  => stack'[i].pm = stack[i].pm
       /\ Len(stack') > Len(stack) => stack'[Len(stack')].pm = <<>>
       /\ (ReadsRow /\ pending' # <<>>)
            => LET t == pending'[1]
                   ch == Tail(pending')
                   pairs == PairsOf(Top.pm, t)
               IN  /\ Len(ch) <= Len(pairs)
                   /\ fault' = "none" => Len(ch) = Len(pairs)
                   /\ \A k \in 1..Len(ch) :
                          /\ ch[k].is_arg_child
                          /\ ch[k].record_term = Strip(Top.pm[pairs[k]])
                          /\ ch[k].value = t.args[pairs[k]]]_vars

\* After two section rows a data row has yielded the children of the second
C13_Witness ==
    /\ Len(rows) = 3
    /\ rows[1].row = <<W("section"), <<>>, <<"a", DOT, "b">>>>
    /\ rows[2].row = <<W("section"), <<>>, W("a"), W("b")>>
    /\ Len(pending) = 3
    /\ pending[2].record_term = W("a")
    /\ pending[3].record_term = W("b")

\* C14: a termvaluename row with an argument yields nothing and registers
\* its first argument under its lowercased value, replacing an earlier
\* registration; no other step changes the value names; and the term a row
\* yields carries the name registered for its lowercased record_term, or
\* "@value" when there is none.
C14_ValueName ==
    [][/\ (ReadsRow /\ IsValueNameRow(Top.syn, NewRow) /\ Len(NewRow) >= 3)
            => /\ DOMAIN stack'[Len(stack)].vn =
                      DOMAIN Top.vn \cup {Lower(Strip(NewRow[2]))}
               /\ \A x \in DOMAIN stack'[Len(stack)].vn :
                      stack'[Len(stack)].vn[x] =
                          IF x = Lower(Strip(NewRow[2])) THEN Strip(NewRow[3]) ELSE Top.vn[x]
               /\ Len(stack') = Len(stack)
               /\ pending' = <<>> /\ out' = out /\ pc' = "run"
       /\ \A i \in Kept :
              (i < Len(stack) \/ ~(ReadsRow /\ IsValueNameRow(Top.syn, NewRow)))
                  => stack'[i].vn = stack[i].vn
       /\ Len(stack') > Len(stack) => stack'[Len(stack')].vn = EmptyDict
       /\ (ReadsRow /\ pending' # <<>>)
            => pending'[1].term_value_name =
                   IF Lower(pending'[1].record_term) \in DOMAIN Top.vn
                   THEN Top.vn[Lower(pending'[1].record_term)]
                   ELSE AT_VALUE]_vars

\* After table was given the value name a and then b, a table row has
\* yielded a term whose value name is b
C14_Witness ==
    /\ Len(rows) = 3
    /\ rows[1].row = <<W("termvaluename"), W("table"), W("a")>>
    /\ rows[2].row = <<W("termvaluename"), W("Table"), W("b")>>
    /\ pending # <<>>
    /\ pending[1].record_term = W("table")
    /\ pending[1].term_value_name = W("b")

SameTables(f, g) == f.syn = g.syn /\ f.vn = g.vn /\ f.pm = g.pm

\* C15: a nested parser starts with empty synonyms, value names and
\* parameter map, and no step changes those of a parser other than the
\* innermost one: what an included resource registers never reaches its
\* includer.
C15_IncludeIsolation ==
    [][/\ Len(stack') > Len(stack)
            => /\ stack'[Len(stack')].syn = EmptyDict
               /\ stack'[Len(stack')].vn = EmptyDict
               /\ stack'[Len(stack')].pm = <<>>
               /\ \A i \in 1..Len(stack) : SameTables(stack'[i], stack[i])
       /\ \A i \in Kept : i < Len(stack) => SameTables(stack'[i], stack[i])]_vars

\* An includer that kept its parameter map while the resource it included,
\* now exhausted, declared another
C15_Witness ==
    /\ Len(rows) = 3
    /\ rows[1].row = <<W("section"), <<>>, W("a"), W("b")>>
    /\ rows[3].row = <<W("section"), <<>>, <<"a", DOT, "b">>>>
    /\ Len(rows[3].src) = 2
    /\ Len(stack) = 1
    /\ handles = <<"closed">>
    /\ stack[1].pm = <<W("a"), W("b")>>

\* The record of the row that carried the argument record j was made of:
\* the last record before j that is not made of an arg child
RowRecordOf(j) ==
    CHOOSE i \in 2..(j - 1) :
        /\ ~TermOf(i).is_arg_child
        /\ \A k \in (i + 1)..(j - 1) : TermOf(k).is_arg_child

\* C16: every record made of an arg child is a child of the record made of
\* the row that carried the argument.
C16_ArgChildOfItsRow ==
    \A j \in 2..Len(recs) :
        TermOf(j).is_arg_child => IsChild(RowRecordOf(j), j)

\* C16 for the arg children of rows whose own parent is not elided
C16_NamedRows ==
    \A j \in 2..Len(recs) :
        (TermOf(j).is_arg_child /\ TermOf(RowRecordOf(j)).parent_term # ELIDED_TERM)
            => IsChild(RowRecordOf(j), j)

\* C17: the mapping of an internal node holds the converted value of every
\* child, under the child's term, alone or as an element of the list there.
C17_ChildrenKept ==
    \A i \in 1..Len(recs) :
        \A n \in 1..Len(recs[i].children) :
            LET c == recs[i].children[n]
                d == convert_to_dict(recs, i).v
            IN  /\ recs[c].term \in DOMAIN d
                /\ \/ d[recs[c].term] = convert_to_dict(recs, c)
                   \/ /\ d[recs[c].term].k = "list"
                      /\ \E m \in 1..Len(d[recs[c].term].v) :
                             d[recs[c].term].v[m] = convert_to_dict(recs, c)

\* The j-th term delivered names a parent no earlier term registered
Unresolved(j) ==
    /\ out[j].t.parent_term # NO_TERM
    /\ ~\E i \in 1..(j - 1) :
           /\ Eligible(out[i].t)
           /\ \/ out[j].t.parent_term = ELIDED_TERM
              \/ Lower(out[i].t.record_term) = Lower(out[j].t.parent_term)

\* C18: a term whose parent cannot be resolved ends generate_records with a
\* KeyError: it is the last term pulled, no record is made of it, no tree is
\* returned, and only terms without a parent are children of Root.
C18_UnresolvedParentRaises ==
    /\ \A j \in 1..Len(out) :
           Unresolved(j) =>
               /\ j = Len(out)
               /\ pc = "raised" /\ exc = "KeyError"
               /\ Len(recs) = Len(out)
               /\ result = Unset
    /\ \A n \in 1..Len(recs[1].children) :
           TermOf(recs[1].children[n]).parent_term = NO_TERM

\* A term naming a parent that no earlier term registered, after terms that
\* were attached
C18_Witness ==
    /\ pc = "raised"
    /\ Len(out) >= 3
    /\ Unresolved(Len(out))
    /\ out[Len(out)].t.parent_term # ELIDED_TERM

\* C19: a termvaluename row never aborts the stream: the parser is never
\* left raised by the IndexError of such a row.
C19_ValueNameRowNeverAborts ==
    ~(/\ pc = "raised" /\ exc = "IndexError"
      /\ rows # <<>>
      /\ IsValueNameRow(Top.syn, LastRow))

====
